---- MODULE Spec2Model ----
(***************************************************************************)
(* The data-access layer of minka-creative: src/lib/db.ts (a Firestore     *)
(* variant, lines 1-297, and a Supabase variant, lines 299-695) and        *)
(* src/lib/db_new.ts (a localStorage-only variant).  Every store keeps a   *)
(* JSON-encoded sequence of items under one localStorage key plus a write  *)
(* timestamp under "<key>_ts".  One behaviour runs one store of one        *)
(* variant; an operation is a call step (the code up to its first await)   *)
(* and, when a remote call is awaited, a return step (the code after it).  *)
(***************************************************************************)
EXTENDS Integers, Sequences, FiniteSets, TLC

(* ------------------------------ bounds --------------------------------- *)
\* Calls made in one behaviour, clock ticks, overlapping calls, generated ids.
MaxOps == 2
MaxTicks == 1
MaxPending == 2
MaxGen == 1

(* --------------------------- program constants ------------------------- *)
DEFAULT_CACHE_TTL_MS == 30 * 60 * 1000
LimitCollection == 1000
LimitMedia == 500
LimitBlog == 100
LimitProjects == 100

(* ------------------------------ values --------------------------------- *)
\* A JS property that is not set reads as undefined.
Undefined == "undefined"
Ids == {"a", "b"}
Vals == {"x", "y"}
GenIdPool == <<"g1", "g2", "g3">>
GenIds == {GenIdPool[i] : i \in 1..3}
Fields == {"id", "v"}

\* An item is an object over the fields id and v; an unset field is Undefined.
NoFields == [id |-> Undefined, v |-> Undefined]
Items == [id : Ids \cup {Undefined}, v : Vals]
Patches == [id : Ids \cup {Undefined}, v : Vals \cup {Undefined}] \ {NoFields}

\* JS values the operations handle: null, undefined, an array of items, an
\* object, and the marker of a thrown exception.
JsNull == [k |-> "null", arr |-> <<>>, obj |-> NoFields]
JsUndefined == [k |-> "undefined", arr |-> <<>>, obj |-> NoFields]
JsThrow == [k |-> "throw", arr |-> <<>>, obj |-> NoFields]
JsArr(s) == [k |-> "arr", arr |-> s, obj |-> NoFields]
JsObj(o) == [k |-> "obj", arr |-> <<>>, obj |-> o]

\* What localStorage holds under a key: nothing (getItem gives null), or a
\* string: the JSON text of an array, the JSON text of an object, or a string
\* that is not JSON.
NoEntry == [t |-> "none", arr |-> <<>>, obj |-> NoFields]
BadText == [t |-> "bad", arr |-> <<>>, obj |-> NoFields]

\* JSON.stringify of an array of items / of an object.
JSONstringify(val) ==
    IF val.k = "arr" THEN [t |-> "arrtext", arr |-> val.arr, obj |-> NoFields]
    ELSE [t |-> "objtext", arr |-> <<>>, obj |-> val.obj]

\* JSON.parse of a string: throws a SyntaxError on a string that is not JSON.
JSONparse(text) ==
    CASE text.t = "arrtext" -> JsArr(text.arr)
      [] text.t = "objtext" -> JsObj(text.obj)
      [] OTHER -> JsThrow


(* ------------------------------ stores --------------------------------- *)
Variants == {"firestore", "supabase", "local"}
Stores == {"collection", "media", "blog", "projects", "doc"}

\* db_new.ts has no ProjectDB.
Configs == {c \in [variant : Variants, store : Stores] :
              ~(c.variant = "local" /\ c.store = "projects")}

\* The localStorage key of a store; the collection is the table "t" and the
\* settings document is "d".
cacheKey(s) ==
    CASE s = "collection" -> "jakub_minka_cache_t"
      [] s = "media" -> "jakub_minka_media_cache"
      [] s = "blog" -> "jakub_minka_blog_cache"
      [] s = "projects" -> "jakub_minka_projects_cache"
      [] OTHER -> "jakub_minka_settings_d"
CacheKeys == {cacheKey(s) : s \in Stores}
docId == "d"

\* Which backend a store of a variant calls: in db.ts lines 1-297 BlogDB and
\* ProjectDB touch localStorage only, and so does every store of db_new.ts.
Backend(v, s) ==
    CASE v = "supabase" -> "supabase"
      [] v = "firestore" /\ s \in {"collection", "media", "doc"} -> "firestore"
      [] OTHER -> "none"

\* The .limit(n) of a store's select in the Supabase variant.
SelectLimit(s) ==
    CASE s = "collection" -> LimitCollection
      [] s = "media" -> LimitMedia
      [] s = "blog" -> LimitBlog
      [] OTHER -> LimitProjects

(* ------------------------------- state --------------------------------- *)
VARIABLES
    variant,               \* which file/variant of the layer is loaded
    store,                 \* the store the behaviour exercises
    overlap,               \* whether the caller fires calls without awaiting
    lsVal,                 \* localStorage: the string under each cache key
    lsTs,                  \* localStorage: the number under "<key>_ts", 0 if unset
    remote,                \* the backend table / collection of the store
    supabaseLimitReached,  \* the latched "service degraded" flag
    now,                   \* Date.now()
    pending,               \* calls awaiting their remote call
    calls,                 \* number of calls made
    genCount,              \* number of ids generated
    last,                  \* the call that settled last
    deleted,               \* ids deleted and not saved since
    gone                   \* ids deleted and neither written nor fetched since

vars == <<variant, store, overlap, lsVal, lsTs, remote, supabaseLimitReached,
          now, pending, calls, genCount, last, deleted, gone>>

key == cacheKey(store)
backend == Backend(variant, store)

TickMs == DEFAULT_CACHE_TTL_MS
StartNow == TickMs

\* A call: its arguments, the cache text it read, the remote call it issued
\* ("none" when it issued none), whether it dispatched the 'storage' event,
\* what it returned and how it settled.
NoCall ==
    [n |-> 0, op |-> "none", item |-> NoFields, id |-> Undefined,
     data |-> NoFields, force |-> FALSE, hasTtl |-> FALSE, ttlMs |-> 0,
     prior |-> NoEntry, ret |-> JsUndefined, remote |-> "none",
     notified |-> FALSE, status |-> "none", outcome |-> "none"]
Call(op) == [NoCall EXCEPT !.n = calls + 1, !.op = op, !.status = "pending"]

\* A faulty delete that removes the first item with the id and keeps the rest.
Filter_FirstOnly(local, id) ==
    IF \E k \in 1..Len(local) : local[k].id = id
    THEN LET first == CHOOSE k \in 1..Len(local) :
                         local[k].id = id /\ \A j \in 1..(k - 1) : local[j].id # id
         IN  [j \in 1..(Len(local) - 1) |->
                 IF j < first THEN local[j] ELSE local[j + 1]]
    ELSE local

(* --------------------------- shared helpers ---------------------------- *)
\* A faulty filter that drops nothing: the deleted id stays in the sequence.
Filter_KeepsAll(local, id) == local

\* i.id !== id
Filter(local, id) == SelectSeq(local, LAMBDA i : i.id # id)

\* A faulty save that writes the item alone, without the sequence it read.
Prepend_Alone(item, local) == <<item>>

\* A faulty save that puts the item behind the others.
Prepend_Appends(item, local) == Filter(local, item.id) \o <<item>>

\* [item, ...local.filter(i => i.id !== item.id)]
Prepend(item, local) == <<item>> \o Filter(local, item.id)

\* A faulty merge, { ...data, ...i }: the cached item's fields win.
Merge_ItemWins(i, data) ==
    [id |-> IF i.id # Undefined THEN i.id ELSE data.id,
     v |-> IF i.v # Undefined THEN i.v ELSE data.v]

\* { ...i, ...data }
Merge(i, data) ==
    [id |-> IF data.id # Undefined THEN data.id ELSE i.id,
     v |-> IF data.v # Undefined THEN data.v ELSE i.v]

\* A faulty update that inserts the patch under id when no cached item has it.
MapMerge_Upserts(local, id, data) ==
    IF \E k \in 1..Len(local) : local[k].id = id
    THEN [k \in 1..Len(local) |->
            IF local[k].id = id THEN Merge(local[k], data) ELSE local[k]]
    ELSE local \o <<[id |-> id, v |-> data.v]>>

\* local.map(i => i.id === id ? { ...i, ...data } : i)
MapMerge(local, id, data) ==
    [k \in 1..Len(local) |->
        IF local[k].id = id THEN Merge(local[k], data) ELSE local[k]]

\* updated.find(i => i.id === id)
Find(updated, id) ==
    IF \E k \in 1..Len(updated) : updated[k].id = id
    THEN JsObj(updated[CHOOSE k \in 1..Len(updated) :
                   /\ updated[k].id = id
                   /\ \A j \in 1..(k - 1) : updated[j].id # id])
    ELSE JsUndefined

\* A faulty writeCache that stores the items under a timestamp of 0.
writeCache_ZeroTs(k, items) ==
    /\ lsVal' = [lsVal EXCEPT ![k] = JSONstringify(JsArr(items))]
    /\ lsTs' = [lsTs EXCEPT ![k] = 0]

\* A faulty writeCache that removes the entry of an empty sequence.
writeCache_DropsEmpty(k, items) ==
    /\ lsVal' = [lsVal EXCEPT ![k] = IF items = <<>> THEN NoEntry
                                     ELSE JSONstringify(JsArr(items))]
    /\ lsTs' = [lsTs EXCEPT ![k] = IF items = <<>> THEN 0 ELSE now]

\* A faulty writeCache that stores the items and leaves the timestamp alone.
writeCache_KeepsTs(k, items) ==
    /\ lsVal' = [lsVal EXCEPT ![k] = JSONstringify(JsArr(items))]
    /\ UNCHANGED lsTs

\* A faulty writeCache that keeps one timestamp for all keys.
writeCache_SharedTs(k, items) ==
    /\ lsVal' = [lsVal EXCEPT ![k] = JSONstringify(JsArr(items))]
    /\ lsTs' = [x \in DOMAIN lsTs |-> now]

\* writeCache(cacheKey, items)
writeCache(k, items) ==
    /\ lsVal' = [lsVal EXCEPT ![k] = JSONstringify(JsArr(items))]
    /\ lsTs' = [lsTs EXCEPT ![k] = now]

\* A faulty readCache that counts an entry written exactly ttlMs ago as fresh.
readCache_BoundaryFresh(k, ttlMs, force) ==
    IF force THEN JsNull
    ELSE LET cached == lsVal[k]
             cachedTs == lsTs[k]
         IN  IF cached.t # "none" /\ cachedTs # 0 /\ now - cachedTs <= ttlMs
             THEN JSONparse(cached)
             ELSE JsNull

\* A faulty readCache that serves a fresh entry although force is set.
readCache_IgnoresForce(k, ttlMs, force) ==
    LET cached == lsVal[k]
        cachedTs == lsTs[k]
    IN  IF cached.t # "none" /\ cachedTs # 0 /\ now - cachedTs < ttlMs
        THEN JSONparse(cached)
        ELSE JsNull

\* A faulty readCache that measures freshness against the default window,
\* whatever ttlMs the caller gave.
readCache_IgnoresTtl(k, ttlMs, force) ==
    IF force THEN JsNull
    ELSE LET cached == lsVal[k]
             cachedTs == lsTs[k]
         IN  IF cached.t # "none" /\ cachedTs # 0
                  /\ now - cachedTs < DEFAULT_CACHE_TTL_MS
             THEN JSONparse(cached)
             ELSE JsNull

\* readCache(cacheKey, ttlMs, force)
readCache(k, ttlMs, force) ==
    IF force THEN JsNull
    ELSE LET cached == lsVal[k]
             cachedTs == lsTs[k]
         IN  IF cached.t # "none" /\ cachedTs # 0 /\ now - cachedTs < ttlMs
             THEN JSONparse(cached)
             ELSE JsNull

\* options?.ttlMs ?? DEFAULT_CACHE_TTL_MS
TtlOf(f) == IF f.hasTtl THEN f.ttlMs ELSE DEFAULT_CACHE_TTL_MS

\* JSON.parse(localStorage.getItem(cacheKey) || '[]'), then .filter / .map on
\* the result: a TypeError when the parsed value is no array.
ReadLocal(k) ==
    LET parsed == IF lsVal[k].t = "none" THEN JsArr(<<>>) ELSE JSONparse(lsVal[k])
    IN  IF parsed.k = "arr" THEN parsed ELSE JsThrow

\* A faulty fallback that answers a failed fetch with the empty sequence.
ReadFallback_Empty(k) == JsArr(<<>>)

\* local ? JSON.parse(local) : []
ReadFallback(k) ==
    IF lsVal[k].t = "none" THEN JsArr(<<>>) ELSE JSONparse(lsVal[k])


(* ------------------------- inputs of the calls ------------------------- *)
SaveItems == {[id |-> "a", v |-> "x"], [id |-> "a", v |-> "y"],
              [id |-> Undefined, v |-> "x"]}
UpdatePatches == {[id |-> Undefined, v |-> "y"], [id |-> "b", v |-> Undefined]}
DocData == {[id |-> Undefined, v |-> "x"], [id |-> Undefined, v |-> "y"]}
\* getAll(), getAll({ttlMs}), getAll({force: true})
GetAllOptions ==
    {[force |-> FALSE, hasTtl |-> FALSE, ttlMs |-> 0],
     [force |-> FALSE, hasTtl |-> TRUE, ttlMs |-> 2 * TickMs],
     [force |-> FALSE, hasTtl |-> TRUE, ttlMs |-> 0],
     [force |-> TRUE, hasTtl |-> FALSE, ttlMs |-> 0]}

\* How a remote call ends: it succeeds, it fails, or it fails with an error
\* whose message contains 'quota' or 'limit'.
Outcomes == {"ok", "error", "quota"}

(* ------------------------- the remote backend -------------------------- *)
\* A row of the backend table: its primary key (Supabase) or document id
\* (Firestore), and its columns / document data.
Row(d, data) == [doc |-> d, data |-> data]
HasRow(tbl, d) == \E k \in 1..Len(tbl) : tbl[k].doc = d

\* supabase.from(t).select('*').order(..).limit(n): the rows, newest first.
select(tbl, n) ==
    [k \in 1..(IF Len(tbl) < n THEN Len(tbl) ELSE n) |-> tbl[k].data]

\* supabase.from(t).upsert([item], {onConflict: 'id'})
upsert(tbl, item) ==
    IF HasRow(tbl, item.id)
    THEN [k \in 1..Len(tbl) |->
            IF tbl[k].doc = item.id THEN Row(item.id, Merge(tbl[k].data, item))
            ELSE tbl[k]]
    ELSE <<Row(item.id, item)>> \o tbl

\* supabase.from(t).delete().eq('id', id), deleteDoc(docRef)
deleteRows(tbl, id) == SelectSeq(tbl, LAMBDA r : r.doc # id)

\* supabase.from(t).update(data).eq('id', id): a patch that carries an id
\* rewrites the primary key of the row.
updateRows(tbl, id, data) ==
    [k \in 1..Len(tbl) |->
        IF tbl[k].doc = id
        THEN Row(IF data.id # Undefined THEN data.id ELSE id, Merge(tbl[k].data, data))
        ELSE tbl[k]]

\* supabase.from(t).select('*').eq('id', d).single(), docSnap.data()
single(tbl, d) == tbl[CHOOSE k \in 1..Len(tbl) : tbl[k].doc = d].data

\* Whether the backend can accept the call: a row needs a primary key, and a
\* primary key cannot be rewritten to one another row has.
SbAccepts(tbl, f) ==
    CASE f.op \in {"save", "docSet"} -> f.item.id # Undefined
      [] f.op = "update" ->
            ~(f.data.id # Undefined /\ f.data.id # f.id /\ HasRow(tbl, f.id)
              /\ HasRow(tbl, f.data.id))
      [] f.op = "docGet" -> HasRow(tbl, docId)
      [] OTHER -> TRUE

\* getDocs(collection): snapshot.docs.map(doc => ({ id: doc.id, ...doc.data() }))
getDocs(tbl) ==
    [k \in 1..Len(tbl) |-> Merge([id |-> tbl[k].doc, v |-> Undefined], tbl[k].data)]

\* updateDoc(docRef, data): merges the fields into an existing document.
updateDoc(tbl, d, data) ==
    [k \in 1..Len(tbl) |->
        IF tbl[k].doc = d THEN Row(d, Merge(tbl[k].data, data)) ELSE tbl[k]]

\* addDoc(collection, item): a new document under a generated document id.
addDoc(tbl, d, item) == tbl \o <<Row(d, item)>>

\* updateDoc fails on a document that does not exist.
FsAccepts(tbl, f) ==
    CASE f.op = "save" -> f.remote = "addDoc" \/ HasRow(tbl, f.item.id)
      [] f.op = "update" -> HasRow(tbl, f.id)
      [] f.op = "docSet" -> HasRow(tbl, docId)
      [] OTHER -> TRUE


(* --------------------------- common fragments -------------------------- *)
config == <<variant, store, overlap>>

\* The caller awaits each call before the next unless it overlaps them.
CanCall ==
    /\ calls < MaxOps
    /\ \/ pending = {}
       \/ overlap /\ Cardinality(pending) < MaxPending

\* The promise rejects / resolves; the call awaits its remote call.
Rejects(f) == last' = [f EXCEPT !.status = "rejected", !.ret = JsThrow]
Resolves(f, ret) == last' = [f EXCEPT !.status = "resolved", !.ret = ret]
Awaits(f) == pending' = pending \cup {f} /\ UNCHANGED last

\* The bookkeeping of the ids a delete removed.  A save of the id ends it; so
\* does, for gone, an update whose patch sets the id, and a fetch that succeeds
\* (the cache then holds what the backend holds).
NoteSaved(id) == deleted' = deleted \ {id} /\ gone' = gone \ {id}
NoteWritten(id) == gone' = gone \ {id} /\ UNCHANGED deleted
NoteDeleted(id) == deleted' = deleted \cup {id} /\ gone' = gone \cup {id}
NoteFetched == gone' = {} /\ UNCHANGED deleted
NoteNothing == UNCHANGED <<deleted, gone>>

(* ===================== Supabase variant (db.ts 299-695) ================ *)
\* A faulty guard that attempts the remote call whatever the flag.
RemoteAllowed_Always == TRUE

\* if (!supabaseLimitReached)
RemoteAllowed == ~supabaseLimitReached

\* A faulty check that latches the flag on every remote error.
checkSupabaseError_AnyError(outcome) == TRUE

\* checkSupabaseError(error): latches the flag on a quota / limit message.
checkSupabaseError(outcome) == outcome = "quota"

\* The code after the awaited remote call of a Supabase mutation.
SbSettle(f, outcome, tbl) ==
    /\ outcome = "ok" => SbAccepts(remote, f)
    /\ remote' = IF outcome = "ok" THEN tbl ELSE remote
    /\ supabaseLimitReached' =
          IF outcome # "ok" /\ checkSupabaseError(outcome) THEN TRUE
          ELSE supabaseLimitReached
    /\ last' = [f EXCEPT !.status = "resolved", !.notified = TRUE, !.outcome = outcome]
    /\ pending' = pending \ {f}
    /\ UNCHANGED <<config, lsVal, lsTs, now, calls, genCount>>

\* The code of a Supabase mutation after its cache write.
SbAttempt(f, call) ==
    IF RemoteAllowed
    THEN Awaits([f EXCEPT !.remote = call])
    ELSE /\ last' = [f EXCEPT !.status = "resolved", !.notified = TRUE,
                              !.outcome = "skipped"]
         /\ UNCHANGED pending

SbGetAll(o) ==
    /\ backend = "supabase" /\ store # "doc" /\ CanCall
    /\ LET f == [Call("getAll") EXCEPT !.force = o.force, !.hasTtl = o.hasTtl,
                                       !.ttlMs = o.ttlMs, !.prior = lsVal[key]]
           cached == readCache(key, TtlOf(f), o.force)
       IN  IF cached.k = "throw" THEN Rejects(f) /\ UNCHANGED pending
           ELSE IF cached.k # "null" THEN Resolves(f, cached) /\ UNCHANGED pending
           ELSE Awaits([f EXCEPT !.remote = "select"])
    /\ calls' = calls + 1
    /\ NoteNothing
    /\ UNCHANGED <<config, lsVal, lsTs, remote, supabaseLimitReached, now, genCount>>

SbGetAllReturn(f, outcome) ==
    /\ backend = "supabase" /\ f \in pending /\ f.op = "getAll"
    /\ IF outcome = "ok"
       THEN LET items == select(remote, SelectLimit(store))
            IN  /\ writeCache(key, items)
                /\ Resolves([f EXCEPT !.outcome = outcome], JsArr(items))
                /\ NoteFetched
       ELSE LET local == ReadFallback(key)
                g == [f EXCEPT !.outcome = outcome, !.prior = lsVal[key]]
            IN  /\ IF local.k = "throw" THEN Rejects(g) ELSE Resolves(g, local)
                /\ NoteNothing
                /\ UNCHANGED <<lsVal, lsTs>>
    /\ pending' = pending \ {f}
    /\ UNCHANGED <<config, remote, supabaseLimitReached, now, calls, genCount>>

SbSave(item) ==
    /\ backend = "supabase" /\ store # "doc" /\ CanCall
    /\ LET f == [Call("save") EXCEPT !.item = item, !.prior = lsVal[key],
                   !.ret = IF store = "blog" THEN JsObj(item) ELSE JsUndefined]
           localData == ReadLocal(key)
       IN  IF localData.k = "throw"
           THEN Rejects(f) /\ UNCHANGED <<lsVal, lsTs, pending>> /\ NoteNothing
           ELSE /\ writeCache(key, Prepend(item, localData.arr))
                /\ SbAttempt(f, "upsert")
                /\ NoteSaved(item.id)
    /\ calls' = calls + 1
    /\ UNCHANGED <<config, remote, supabaseLimitReached, now, genCount>>

SbSaveReturn(f, outcome) ==
    /\ backend = "supabase" /\ f \in pending /\ f.op = "save"
    /\ SbSettle(f, outcome, upsert(remote, f.item))
    /\ NoteSaved(f.item.id)

SbDelete(id) ==
    /\ backend = "supabase" /\ store # "doc" /\ CanCall
    /\ LET f == [Call("delete") EXCEPT !.id = id, !.prior = lsVal[key]]
           localData == ReadLocal(key)
       IN  IF localData.k = "throw"
           THEN Rejects(f) /\ UNCHANGED <<lsVal, lsTs, pending>> /\ NoteNothing
           ELSE /\ writeCache(key, Filter(localData.arr, id))
                /\ SbAttempt(f, "delete")
                /\ IF RemoteAllowed THEN NoteNothing ELSE NoteDeleted(id)
    /\ calls' = calls + 1
    /\ UNCHANGED <<config, remote, supabaseLimitReached, now, genCount>>

SbDeleteReturn(f, outcome) ==
    /\ backend = "supabase" /\ f \in pending /\ f.op = "delete"
    /\ SbSettle(f, outcome, deleteRows(remote, f.id))
    /\ NoteDeleted(f.id)

SbUpdate(id, data) ==
    /\ backend = "supabase" /\ store \in {"collection", "media", "projects"} /\ CanCall
    /\ LET f == [Call("update") EXCEPT !.id = id, !.data = data, !.prior = lsVal[key]]
           localData == ReadLocal(key)
       IN  IF localData.k = "throw"
           THEN Rejects(f) /\ UNCHANGED <<lsVal, lsTs, pending>> /\ NoteNothing
           ELSE LET updated == MapMerge(localData.arr, id, data)
                IN  /\ writeCache(key, updated)
                    /\ SbAttempt([f EXCEPT !.ret = IF store = "media"
                                                   THEN Find(updated, id)
                                                   ELSE JsUndefined], "update")
                    /\ NoteWritten(data.id)
    /\ calls' = calls + 1
    /\ UNCHANGED <<config, remote, supabaseLimitReached, now, genCount>>

SbUpdateReturn(f, outcome) ==
    /\ backend = "supabase" /\ f \in pending /\ f.op = "update"
    /\ SbSettle(f, outcome, updateRows(remote, f.id, f.data))
    /\ NoteNothing

SbDocGet ==
    /\ backend = "supabase" /\ store = "doc" /\ CanCall
    /\ Awaits([Call("docGet") EXCEPT !.remote = "select"])
    /\ calls' = calls + 1
    /\ NoteNothing
    /\ UNCHANGED <<config, lsVal, lsTs, remote, supabaseLimitReached, now, genCount>>

\* cached ? JSON.parse(cached)[0] : {}
SbDocFallback(k) ==
    IF lsVal[k].t = "none" THEN JsObj(NoFields)
    ELSE LET parsed == JSONparse(lsVal[k])
         IN  CASE parsed.k = "throw" -> JsThrow
               [] parsed.k = "arr" /\ Len(parsed.arr) > 0 -> JsObj(parsed.arr[1])
               [] OTHER -> JsUndefined

SbDocGetReturn(f, outcome) ==
    /\ backend = "supabase" /\ f \in pending /\ f.op = "docGet"
    /\ outcome = "ok" => SbAccepts(remote, f)
    /\ IF outcome = "ok"
       THEN LET data == single(remote, docId)
            IN  /\ writeCache(key, <<data>>)
                /\ Resolves([f EXCEPT !.outcome = outcome], JsObj(data))
       ELSE LET cached == SbDocFallback(key)
                g == [f EXCEPT !.outcome = outcome, !.prior = lsVal[key]]
            IN  /\ IF cached.k = "throw" THEN Rejects(g) ELSE Resolves(g, cached)
                /\ UNCHANGED <<lsVal, lsTs>>
    /\ pending' = pending \ {f}
    /\ NoteNothing
    /\ UNCHANGED <<config, remote, supabaseLimitReached, now, calls, genCount>>

SbDocSet(data) ==
    /\ backend = "supabase" /\ store = "doc" /\ CanCall
    /\ writeCache(key, <<data>>)
    /\ SbAttempt([Call("docSet") EXCEPT !.data = data, !.prior = lsVal[key],
                    !.item = Merge([id |-> docId, v |-> Undefined], data)], "upsert")
    /\ calls' = calls + 1
    /\ NoteNothing
    /\ UNCHANGED <<config, remote, supabaseLimitReached, now, genCount>>

SbDocSetReturn(f, outcome) ==
    /\ backend = "supabase" /\ f \in pending /\ f.op = "docSet"
    /\ SbSettle(f, outcome, upsert(remote, f.item))
    /\ NoteNothing

\* resetSupabaseLimitStatus()
\* (a call while the flag is false changes nothing: a stuttering step)
resetSupabaseLimitStatus ==
    /\ variant = "supabase" /\ supabaseLimitReached
    /\ supabaseLimitReached' = FALSE
    /\ UNCHANGED <<config, lsVal, lsTs, remote, now, pending, calls, genCount,
                   last, deleted, gone>>


(* ===================== Firestore variant (db.ts 1-297) ================= *)
FsOutcomes == {"ok", "error"}

\* crypto.randomUUID?.() || Date.now().toString()
randomUUID == GenIdPool[genCount + 1]

\* The document id addDoc gives the document of an item with a generated id.
AutoDocId(id) ==
    CASE id = "g1" -> "auto1"
      [] id = "g2" -> "auto2"
      [] OTHER -> "auto3"

FsGetAll(o) ==
    /\ backend = "firestore" /\ store # "doc" /\ CanCall
    /\ LET f == [Call("getAll") EXCEPT !.force = o.force, !.hasTtl = o.hasTtl,
                                       !.ttlMs = o.ttlMs, !.prior = lsVal[key]]
           cached == readCache(key, TtlOf(f), o.force)
       IN  IF cached.k = "throw" THEN Rejects(f) /\ UNCHANGED pending
           ELSE IF cached.k # "null" THEN Resolves(f, cached) /\ UNCHANGED pending
           ELSE Awaits([f EXCEPT !.remote = "getDocs"])
    /\ calls' = calls + 1
    /\ NoteNothing
    /\ UNCHANGED <<config, lsVal, lsTs, remote, supabaseLimitReached, now, genCount>>

FsGetAllReturn(f, outcome) ==
    /\ backend = "firestore" /\ f \in pending /\ f.op = "getAll"
    /\ IF outcome = "ok"
       THEN LET items == getDocs(remote)
            IN  /\ writeCache(key, items)
                /\ Resolves([f EXCEPT !.outcome = outcome], JsArr(items))
                /\ NoteFetched
       ELSE LET local == ReadFallback(key)
                g == [f EXCEPT !.outcome = outcome, !.prior = lsVal[key]]
            IN  /\ IF local.k = "throw" THEN Rejects(g) ELSE Resolves(g, local)
                /\ NoteNothing
                /\ UNCHANGED <<lsVal, lsTs>>
    /\ pending' = pending \ {f}
    /\ UNCHANGED <<config, remote, supabaseLimitReached, now, calls, genCount>>

\* A faulty settle whose catch block only logs: the cache is written when the
\* remote call succeeded, and left alone when it failed.
FsSettle_CatchOnlyLogs(f, outcome, tbl, updated, ret) ==
    /\ outcome = "ok" => FsAccepts(remote, f)
    /\ remote' = IF outcome = "ok" THEN tbl ELSE remote
    /\ LET local == ReadLocal(key)
           g == [f EXCEPT !.outcome = outcome, !.prior = lsVal[key]]
       IN  IF outcome # "ok"
           THEN Resolves(g, ret) /\ UNCHANGED <<lsVal, lsTs>>
           ELSE IF local.k = "throw"
           THEN Rejects(g) /\ UNCHANGED <<lsVal, lsTs>>
           ELSE /\ writeCache(key, updated)
                /\ Resolves([g EXCEPT !.notified = TRUE], ret)
    /\ pending' = pending \ {f}
    /\ UNCHANGED <<config, supabaseLimitReached, now, calls, genCount>>

\* The try and the catch block of a Firestore mutation read the cache, write
\* the changed sequence and (try block only) dispatch the 'storage' event; a
\* throw of the try block's cache read is thrown again by the catch block's.
FsSettle(f, outcome, tbl, updated, ret) ==
    /\ outcome = "ok" => FsAccepts(remote, f)
    /\ remote' = IF outcome = "ok" THEN tbl ELSE remote
    /\ LET local == ReadLocal(key)
           g == [f EXCEPT !.outcome = outcome, !.prior = lsVal[key]]
       IN  IF local.k = "throw"
           THEN Rejects(g) /\ UNCHANGED <<lsVal, lsTs>>
           ELSE /\ writeCache(key, updated)
                /\ Resolves([g EXCEPT !.notified = (outcome = "ok")], ret)
    /\ pending' = pending \ {f}
    /\ UNCHANGED <<config, supabaseLimitReached, now, calls, genCount>>

\* A faulty read that takes the cached sequence to be empty.
LocalArr_Empty == <<>>

\* The sequence ReadLocal gives, the empty one when it throws.
LocalArr == ReadLocal(key).arr

FsSave(item) ==
    /\ backend = "firestore" /\ store # "doc" /\ CanCall
    /\ item.id = Undefined => genCount < MaxGen
    /\ LET withId == IF item.id = Undefined THEN [item EXCEPT !.id = randomUUID]
                     ELSE item
           call == IF store = "collection" /\ item.id = Undefined THEN "addDoc"
                   ELSE "updateDoc"
       IN  /\ Awaits([Call("save") EXCEPT !.item = withId, !.remote = call])
           /\ NoteSaved(withId.id)
    /\ genCount' = IF item.id = Undefined THEN genCount + 1 ELSE genCount
    /\ calls' = calls + 1
    /\ UNCHANGED <<config, lsVal, lsTs, remote, supabaseLimitReached, now>>

FsSaveReturn(f, outcome) ==
    /\ backend = "firestore" /\ f \in pending /\ f.op = "save"
    /\ FsSettle(f, outcome,
                IF f.remote = "addDoc" THEN addDoc(remote, AutoDocId(f.item.id), f.item)
                ELSE updateDoc(remote, f.item.id, f.item),
                Prepend(f.item, LocalArr), JsUndefined)
    /\ NoteSaved(f.item.id)

FsDelete(id) ==
    /\ backend = "firestore" /\ store # "doc" /\ CanCall
    /\ Awaits([Call("delete") EXCEPT !.id = id, !.remote = "deleteDoc"])
    /\ calls' = calls + 1
    /\ NoteNothing
    /\ UNCHANGED <<config, lsVal, lsTs, remote, supabaseLimitReached, now, genCount>>

FsDeleteReturn(f, outcome) ==
    /\ backend = "firestore" /\ f \in pending /\ f.op = "delete"
    /\ FsSettle(f, outcome, deleteRows(remote, f.id), Filter(LocalArr, f.id),
                JsUndefined)
    /\ IF ReadLocal(key).k = "throw" THEN NoteNothing ELSE NoteDeleted(f.id)

FsUpdate(id, data) ==
    /\ backend = "firestore" /\ store # "doc" /\ CanCall
    /\ Awaits([Call("update") EXCEPT !.id = id, !.data = data, !.remote = "updateDoc"])
    /\ calls' = calls + 1
    /\ NoteNothing
    /\ UNCHANGED <<config, lsVal, lsTs, remote, supabaseLimitReached, now, genCount>>

FsUpdateReturn(f, outcome) ==
    /\ backend = "firestore" /\ f \in pending /\ f.op = "update"
    /\ LET updated == MapMerge(LocalArr, f.id, f.data)
       IN  FsSettle(f, outcome, updateDoc(remote, f.id, f.data), updated,
                    IF store = "media" THEN Find(updated, f.id) ELSE JsUndefined)
    /\ NoteWritten(f.data.id)

FsDocGet ==
    /\ backend = "firestore" /\ store = "doc" /\ CanCall
    /\ Awaits([Call("docGet") EXCEPT !.remote = "getDoc"])
    /\ calls' = calls + 1
    /\ NoteNothing
    /\ UNCHANGED <<config, lsVal, lsTs, remote, supabaseLimitReached, now, genCount>>

\* local ? JSON.parse(local) : {}
DocFallback(k) ==
    IF lsVal[k].t = "none" THEN JsObj(NoFields) ELSE JSONparse(lsVal[k])

FsDocGetReturn(f, outcome) ==
    /\ backend = "firestore" /\ f \in pending /\ f.op = "docGet"
    /\ IF outcome = "ok" /\ HasRow(remote, docId)
       THEN LET data == Merge([id |-> docId, v |-> Undefined], single(remote, docId))
            IN  /\ lsVal' = [lsVal EXCEPT ![key] = JSONstringify(JsObj(data))]
                /\ Resolves([f EXCEPT !.outcome = outcome], JsObj(data))
       ELSE LET local == DocFallback(key)
                g == [f EXCEPT !.outcome = outcome, !.prior = lsVal[key]]
            IN  /\ IF local.k = "throw" THEN Rejects(g) ELSE Resolves(g, local)
                /\ UNCHANGED lsVal
    /\ pending' = pending \ {f}
    /\ NoteNothing
    /\ UNCHANGED <<config, lsTs, remote, supabaseLimitReached, now, calls, genCount>>

FsDocSet(data) ==
    /\ backend = "firestore" /\ store = "doc" /\ CanCall
    /\ Awaits([Call("docSet") EXCEPT !.data = data, !.remote = "updateDoc",
                 !.item = Merge([id |-> docId, v |-> Undefined], data)])
    /\ calls' = calls + 1
    /\ NoteNothing
    /\ UNCHANGED <<config, lsVal, lsTs, remote, supabaseLimitReached, now, genCount>>

FsDocSetReturn(f, outcome) ==
    /\ backend = "firestore" /\ f \in pending /\ f.op = "docSet"
    /\ outcome = "ok" => FsAccepts(remote, f)
    /\ remote' = IF outcome = "ok" THEN updateDoc(remote, docId, f.data) ELSE remote
    /\ lsVal' = [lsVal EXCEPT ![key] = JSONstringify(JsObj(f.item))]
    /\ Resolves([f EXCEPT !.outcome = outcome, !.notified = (outcome = "ok")],
                JsUndefined)
    /\ pending' = pending \ {f}
    /\ NoteNothing
    /\ UNCHANGED <<config, lsTs, supabaseLimitReached, now, calls, genCount>>


(* ============ localStorage-only stores (db.ts 250-297, db_new.ts) ======= *)
\* BlogDB and ProjectDB of db.ts lines 250-297, MediaDB and BlogDB of
\* db_new.ts: getAll is  return cached || [].
CoGetAll(o) ==
    /\ backend = "none" /\ store \in {"media", "blog", "projects"} /\ CanCall
    /\ LET f == [Call("getAll") EXCEPT !.force = o.force, !.hasTtl = o.hasTtl,
                                       !.ttlMs = o.ttlMs, !.prior = lsVal[key]]
           cached == readCache(key, TtlOf(f), o.force)
       IN  IF cached.k = "throw" THEN Rejects(f)
           ELSE IF cached.k # "null" THEN Resolves(f, cached)
           ELSE Resolves(f, JsArr(<<>>))
    /\ calls' = calls + 1
    /\ NoteNothing
    /\ UNCHANGED <<config, lsVal, lsTs, remote, supabaseLimitReached, now, pending,
                   genCount>>

\* DataStore.collection(t).getAll of db_new.ts: a stale or forced read
\* rewrites the cache entry from its own content.
LsGetAll(o) ==
    /\ backend = "none" /\ store = "collection" /\ CanCall
    /\ LET f == [Call("getAll") EXCEPT !.force = o.force, !.hasTtl = o.hasTtl,
                                       !.ttlMs = o.ttlMs, !.prior = lsVal[key]]
           cached == readCache(key, TtlOf(f), o.force)
           items == ReadFallback(key)
       IN  IF cached.k = "throw" THEN Rejects(f) /\ UNCHANGED <<lsVal, lsTs>>
           ELSE IF cached.k # "null" THEN Resolves(f, cached) /\ UNCHANGED <<lsVal, lsTs>>
           ELSE IF items.k = "throw" THEN Rejects(f) /\ UNCHANGED <<lsVal, lsTs>>
           ELSE /\ lsVal' = [lsVal EXCEPT ![key] = JSONstringify(items)]
                /\ lsTs' = [lsTs EXCEPT ![key] = now]
                /\ Resolves(f, items)
    /\ calls' = calls + 1
    /\ NoteNothing
    /\ UNCHANGED <<config, remote, supabaseLimitReached, now, pending, genCount>>

\* A mutation of a localStorage-only store: read, write, dispatch, return.
CoSettle(f, updated, notify, ret) ==
    /\ LET current == ReadLocal(key)
       IN  IF current.k = "throw" THEN Rejects(f) /\ UNCHANGED <<lsVal, lsTs>>
           ELSE /\ writeCache(key, updated)
                /\ Resolves([f EXCEPT !.notified = notify], ret)
    /\ calls' = calls + 1
    /\ UNCHANGED <<config, remote, supabaseLimitReached, now, pending, genCount>>

CoSave(item) ==
    /\ backend = "none" /\ store # "doc" /\ CanCall
    /\ CoSettle([Call("save") EXCEPT !.item = item, !.prior = lsVal[key]],
                Prepend(item, LocalArr), TRUE,
                IF store = "blog" THEN JsObj(item) ELSE JsUndefined)
    /\ NoteSaved(item.id)

CoDelete(id) ==
    /\ backend = "none" /\ store # "doc" /\ CanCall
    /\ CoSettle([Call("delete") EXCEPT !.id = id, !.prior = lsVal[key]],
                Filter(LocalArr, id), TRUE, JsUndefined)
    /\ IF ReadLocal(key).k = "throw" THEN NoteNothing ELSE NoteDeleted(id)

\* ProjectDB.update (db.ts), DataStore.collection(t).update and MediaDB.update
\* (db_new.ts); MediaDB.update returns the item and dispatches no event.
CoUpdate(id, data) ==
    /\ backend = "none" /\ store \in {"collection", "media", "projects"} /\ CanCall
    /\ LET updated == MapMerge(LocalArr, id, data)
       IN  CoSettle([Call("update") EXCEPT !.id = id, !.data = data,
                                           !.prior = lsVal[key]],
                    updated, store # "media",
                    IF store = "media" THEN Find(updated, id) ELSE JsUndefined)
    /\ NoteWritten(data.id)

\* DataStore.doc(d).get of db_new.ts
LsDocGet ==
    /\ backend = "none" /\ store = "doc" /\ CanCall
    /\ LET f == [Call("docGet") EXCEPT !.prior = lsVal[key]]
           data == DocFallback(key)
       IN  IF data.k = "throw" THEN Rejects(f) ELSE Resolves(f, data)
    /\ calls' = calls + 1
    /\ NoteNothing
    /\ UNCHANGED <<config, lsVal, lsTs, remote, supabaseLimitReached, now, pending,
                   genCount>>

\* DataStore.doc(d).set of db_new.ts
LsDocSet(data) ==
    /\ backend = "none" /\ store = "doc" /\ CanCall
    /\ lsVal' = [lsVal EXCEPT ![key] = JSONstringify(JsObj(data))]
    /\ Resolves([Call("docSet") EXCEPT !.data = data, !.prior = lsVal[key],
                                       !.notified = TRUE], JsUndefined)
    /\ calls' = calls + 1
    /\ NoteNothing
    /\ UNCHANGED <<config, lsTs, remote, supabaseLimitReached, now, pending, genCount>>

(* ----------------------------- environment ----------------------------- *)
\* Date.now() advances. Calls that overlap are made and settle within one
\* reading of the clock, so with overlapping calls time passes before the
\* first call only.
Tick ==
    /\ now < StartNow + MaxTicks * TickMs
    /\ overlap => calls = 0
    /\ now' = now + TickMs
    /\ UNCHANGED <<config, lsVal, lsTs, remote, supabaseLimitReached, pending,
                   calls, genCount, last, deleted, gone>>

\* What the backend holds when the page loads.
InitRemote(v, s) ==
    CASE Backend(v, s) = "none" -> {<<>>}
      [] Backend(v, s) = "supabase" /\ s = "doc" ->
            {<<>>, <<Row(docId, [id |-> docId, v |-> "x"])>>}
      [] Backend(v, s) = "firestore" /\ s = "doc" ->
            {<<>>, <<Row(docId, [id |-> Undefined, v |-> "x"])>>}
      [] Backend(v, s) = "supabase" ->
            {<<>>, <<Row("a", [id |-> "a", v |-> "x"]), Row("b", [id |-> "b", v |-> "x"])>>}
      [] OTHER ->
            {<<>>, <<Row("a", [id |-> Undefined, v |-> "x"]),
                     Row("b", [id |-> Undefined, v |-> "x"])>>}

\* What localStorage holds under the store's key when the page loads: nothing,
\* or the sequence and the timestamp an earlier visit wrote.
Entry(text, ts) == [text |-> text, ts |-> ts]
EarlierVisit ==
    Entry(JSONstringify(JsArr(<<[id |-> "a", v |-> "x"], [id |-> "b", v |-> "x"]>>)),
          StartNow)
InitEntries(v, s, r) ==
    IF s = "doc" \/ (Backend(v, s) # "none" /\ r = <<>>)
    THEN {Entry(NoEntry, 0)}
    ELSE {Entry(NoEntry, 0), EarlierVisit}

InitWith(extra, ov) ==
    /\ \E c \in Configs :
          /\ variant = c.variant
          /\ store = c.store
          /\ remote \in InitRemote(c.variant, c.store)
          /\ \E e \in InitEntries(c.variant, c.store, remote) \cup extra :
                /\ lsVal = [k \in CacheKeys |->
                              IF k = cacheKey(c.store) THEN e.text ELSE NoEntry]
                /\ lsTs = [k \in CacheKeys |->
                              IF k = cacheKey(c.store) THEN e.ts ELSE 0]
    /\ overlap = ov
    /\ supabaseLimitReached = FALSE
    /\ now = StartNow
    /\ pending = {}
    /\ calls = 0
    /\ genCount = 0
    /\ last = NoCall
    /\ deleted = {}
    /\ gone = {}

\* localStorage is shared with whatever else runs on the page: it may also
\* hold, under the store's key, a string that is not JSON or the JSON text of
\* an object, with or without a recent timestamp.
Malformed ==
    {Entry(BadText, 0), Entry(BadText, StartNow),
     Entry(JSONstringify(JsObj([id |-> "a", v |-> "x"])), StartNow)}

\* The caller awaits every call.
Init == InitWith(Malformed, FALSE)

Next ==
    \/ \E o \in GetAllOptions : SbGetAll(o)
    \/ \E o \in GetAllOptions : FsGetAll(o)
    \/ \E o \in GetAllOptions : CoGetAll(o)
    \/ \E o \in GetAllOptions : LsGetAll(o)
    \/ \E item \in SaveItems : SbSave(item)
    \/ \E item \in SaveItems : FsSave(item)
    \/ \E item \in SaveItems : CoSave(item)
    \/ \E id \in Ids : SbDelete(id)
    \/ \E id \in Ids : FsDelete(id)
    \/ \E id \in Ids : CoDelete(id)
    \/ \E id \in Ids, data \in UpdatePatches : SbUpdate(id, data)
    \/ \E id \in Ids, data \in UpdatePatches : FsUpdate(id, data)
    \/ \E id \in Ids, data \in UpdatePatches : CoUpdate(id, data)
    \/ SbDocGet
    \/ FsDocGet
    \/ LsDocGet
    \/ \E data \in DocData : SbDocSet(data)
    \/ \E data \in DocData : FsDocSet(data)
    \/ \E data \in DocData : LsDocSet(data)
    \/ \E f \in pending, outcome \in Outcomes : SbGetAllReturn(f, outcome)
    \/ \E f \in pending, outcome \in Outcomes : SbSaveReturn(f, outcome)
    \/ \E f \in pending, outcome \in Outcomes : SbDeleteReturn(f, outcome)
    \/ \E f \in pending, outcome \in Outcomes : SbUpdateReturn(f, outcome)
    \/ \E f \in pending, outcome \in Outcomes : SbDocGetReturn(f, outcome)
    \/ \E f \in pending, outcome \in Outcomes : SbDocSetReturn(f, outcome)
    \/ \E f \in pending, outcome \in FsOutcomes : FsGetAllReturn(f, outcome)
    \/ \E f \in pending, outcome \in FsOutcomes : FsSaveReturn(f, outcome)
    \/ \E f \in pending, outcome \in FsOutcomes : FsDeleteReturn(f, outcome)
    \/ \E f \in pending, outcome \in FsOutcomes : FsUpdateReturn(f, outcome)
    \/ \E f \in pending, outcome \in FsOutcomes : FsDocGetReturn(f, outcome)
    \/ \E f \in pending, outcome \in FsOutcomes : FsDocSetReturn(f, outcome)
    \/ resetSupabaseLimitStatus
    \/ Tick

Spec == Init /\ [][Next]_vars

\* A caller that does not await a call before it makes the next one: the calls
\* overlap, and each settles when its remote call returns. The overlapping
\* calls go to DataStore, whose code MediaDB, BlogDB and ProjectDB repeat, and
\* to the stores of db_new.ts, over a cache that holds a sequence or nothing.
InitOverlap ==
    /\ InitWith({}, TRUE)
    /\ store \in {"collection", "doc"} \/ variant = "local"
SpecOverlap == InitOverlap /\ [][Next]_vars


(* ======================================================================= *)
(*                               properties                                *)
(* ======================================================================= *)
Mutations == {"save", "delete", "update", "docSet"}
Settled == last.status \in {"resolved", "rejected"}
\* The call that settled last was the last one made, and nothing is in flight.
Quiet == Settled /\ pending = {} /\ calls = last.n
\* The call made by this step, if the step is a call.
NewCalls == {f \in pending' \cup {last'} : calls' = calls + 1 /\ f.n = calls'}

CachedArr == lsVal[key].arr
CountId(seq, id) == Cardinality({k \in 1..Len(seq) : seq[k].id = id})
CountItem(seq, item) == Cardinality({k \in 1..Len(seq) : seq[k] = item})
FirstWithId(seq, id) ==
    CHOOSE k \in 1..Len(seq) : seq[k].id = id /\ \A j \in 1..(k - 1) : seq[j].id # id
\* The patch overrides every field it sets.
Overridden(i, patch) ==
    [id |-> IF patch.id = Undefined THEN i.id ELSE patch.id,
     v |-> IF patch.v = Undefined THEN i.v ELSE patch.v]

\* C1: in a store that never calls a backend, a getAll({force: true}) that
\* follows a resolved save(item) returns a sequence that holds an item with
\* item.id exactly once, and that item is the saved one.
C1_SavedItemReturnedByForcedGetAll ==
    [][(/\ backend = "none" /\ store # "doc"
        /\ last.op = "save" /\ last.status = "resolved"
        /\ last'.op = "getAll" /\ last'.force /\ last'.n = last.n + 1)
       => (/\ last'.status = "resolved"
           /\ last'.ret.k = "arr"
           /\ CountId(last'.ret.arr, last.item.id) = 1
           /\ CountItem(last'.ret.arr, last.item) = 1)]_vars

\* C2: when a save whose remote upsert failed (threw or returned an error) or
\* was skipped has resolved, the cached sequence of the key holds the saved
\* item, with the saved field values, exactly once.
C2_LocalFirstSave ==
    (/\ last.op = "save" /\ last.status = "resolved" /\ Quiet
     /\ last.outcome \in {"error", "quota", "skipped"})
      => /\ lsVal[key].t = "arrtext"
         /\ CountId(CachedArr, last.item.id) = 1
         /\ CountItem(CachedArr, last.item) = 1

\* C2 witness: a save over a cached sequence that held its id resolved after
\* its remote call failed.
C2_Witness ==
    /\ last.op = "save" /\ last.status = "resolved" /\ Quiet
    /\ last.outcome = "error"
    /\ last.prior.t = "arrtext" /\ CountId(last.prior.arr, last.item.id) = 1
    /\ CountItem(last.prior.arr, last.item) = 0
    /\ CountItem(CachedArr, last.item) = 1

\* C3, as stated: a getAll that resolves after a delete(id) resolved, with no
\* save of that id in between, returns no item with that id.
C3_DeletedNeverReturned ==
    (last.op = "getAll" /\ last.status = "resolved" /\ last.ret.k = "arr")
      => \A id \in deleted : CountId(last.ret.arr, id) = 0

\* C3, amended: a getAll that resolves after a delete(id) resolved and is
\* answered from the cache (a fresh entry, a failed fetch, or a store without a
\* backend) returns no item with that id, as long as no save of that id, no
\* update whose patch sets that id and no fetch that succeeded happened in
\* between; a getAll that fetches returns what the backend holds.
C3_DeletedStaysGone ==
    (last.op = "getAll" /\ last.status = "resolved" /\ last.ret.k = "arr")
      => \A id \in gone : CountId(last.ret.arr, id) = 0

\* C3 witness: a delete whose remote call failed removed a cached item, and
\* a later getAll whose fetch failed returned the rest.
C3_Witness ==
    /\ last.op = "getAll" /\ last.status = "resolved" /\ Quiet
    /\ last.outcome = "error"
    /\ "a" \in gone
    /\ last.ret = JsArr(<<[id |-> "b", v |-> "x"]>>)
    /\ HasRow(remote, "a")

\* C4: when the key's entry is a sequence written less than ttl ago
\* (now - writeTimestamp < ttlMs, 30 minutes unless the caller gives ttlMs), a
\* getAll without force resolves at once with exactly that sequence and
\* issues no remote call.
C4_FreshCacheServed ==
    [][\A f \in NewCalls :
          (/\ f.op = "getAll" /\ ~f.force
           /\ lsVal[key].t = "arrtext" /\ lsTs[key] # 0
           /\ now - lsTs[key] < (IF f.hasTtl THEN f.ttlMs ELSE 1800000))
          => (/\ f = last'
              /\ f.status = "resolved"
              /\ f.ret = JsArr(lsVal[key].arr)
              /\ f.remote = "none"
              /\ pending' = pending
              /\ remote' = remote)]_vars

\* C4 witness: a remote-backed store served the empty sequence from a fresh
\* entry without a remote call.
C4_Witness ==
    /\ backend # "none"
    /\ last.op = "getAll" /\ ~last.force /\ last.status = "resolved"
    /\ last.remote = "none"
    /\ last.ret = JsArr(<<>>)
    /\ lsVal[key].t = "arrtext"

\* C5: in a remote-backed store every getAll({force: true}) issues a remote
\* fetch, whatever the age of the entry and whatever the degraded flag.
C5_ForceAlwaysFetches ==
    \A f \in pending \cup {last} :
        (f.op = "getAll" /\ f.force /\ backend # "none") => f.remote # "none"

\* C5 witness: a forced getAll fetched although the entry was fresh and the
\* degraded flag latched.
C5_Witness ==
    /\ supabaseLimitReached
    /\ \E f \in pending :
          /\ f.op = "getAll" /\ f.force /\ f.remote = "select"
          /\ lsVal[key].t = "arrtext" /\ lsTs[key] = now

\* C6, as stated: once the degraded flag is latched, no call issues a remote
\* call.
C6_LatchedSkipsEveryRemote ==
    [][\A f \in NewCalls : supabaseLimitReached => f.remote = "none"]_vars

\* C6, amended: while the degraded flag is latched every save, delete, update
\* and doc.set skips its remote call and settles on the cache alone, and
\* issues it again once resetSupabaseLimitStatus has cleared the flag; getAll,
\* unless a fresh entry serves it, and doc.get issue theirs all the same.
C6_LatchedSkipsMutations ==
    [][\A f \in NewCalls :
          variant = "supabase" =>
            /\ (f.op \in Mutations /\ supabaseLimitReached)
                  => /\ f.remote = "none" /\ f = last' /\ remote' = remote
                     /\ f.status = "resolved" => f.outcome = "skipped"
            /\ (f.op \in Mutations /\ ~supabaseLimitReached /\ f.status # "rejected")
                  => (f.remote # "none" /\ f \in pending')
            /\ f.op = "docGet" => f.remote # "none"
            /\ (f.op = "getAll" /\ readCache(key, TtlOf(f), f.force).k = "null")
                  => f.remote # "none"]_vars

\* C6 witness: a mutation skipped its remote call under the latched flag.
C6_Witness ==
    /\ supabaseLimitReached
    /\ last.op \in Mutations /\ last.status = "resolved"
    /\ last.outcome = "skipped" /\ last.remote = "none"

\* C7: the cached sequence of a key never holds two items with the same id.
C7_NoDuplicateIds ==
    (store # "doc" /\ lsVal[key].t = "arrtext")
      => \A i, j \in 1..Len(CachedArr) : i # j => CachedArr[i].id # CachedArr[j].id

C9_RemoteFailureNeverRejects ==
    (Settled /\ last.outcome \in {"error", "quota"})
      => /\ last.status = "resolved"
         /\ Quiet =>
              CASE last.op = "getAll" ->
                      /\ lsVal[key] = last.prior
                      /\ last.ret = IF lsVal[key].t = "none" THEN JsArr(<<>>)
                                    ELSE JsArr(CachedArr)
                [] last.op = "update" /\ store = "media" ->
                      last.ret = IF CountId(CachedArr, last.id) > 0
                                 THEN JsObj(CachedArr[FirstWithId(CachedArr, last.id)])
                                 ELSE JsUndefined
                [] last.op = "save" /\ store = "blog" -> last.ret = JsObj(last.item)
                [] last.op = "docGet" ->
                      /\ lsVal[key] = last.prior
                      /\ last.ret =
                           CASE lsVal[key].t = "none" -> JsObj(NoFields)
                             [] lsVal[key].t = "objtext" -> JsObj(lsVal[key].obj)
                             [] OTHER -> JsObj(CachedArr[1])
                [] OTHER -> last.ret = JsUndefined

\* C10: an operation that finds a malformed string under its key (no JSON, or
\* JSON that is no sequence) treats the cache as empty and resolves: getAll
\* returns the fetched items or the empty sequence, and save, delete and update
\* write what they would write over an empty sequence.
C10_MalformedTreatedAsEmpty ==
    (Settled /\ store # "doc" /\ last.prior.t \in {"bad", "objtext"})
      => /\ last.status = "resolved"
         /\ last.op = "getAll" =>
               /\ last.ret.k = "arr"
               /\ last.outcome # "ok" => last.ret.arr = <<>>
         /\ (Quiet /\ last.op = "save") => lsVal[key] = JSONstringify(JsArr(<<last.item>>))
         /\ (Quiet /\ last.op \in {"delete", "update"}) =>
               lsVal[key] = JSONstringify(JsArr(<<>>))

\* C11: in every store variant, every item of the cached sequence of a key
\* carries a string id: save gives an item without an id a client-generated
\* one before it stores it.
C11_EveryCachedItemHasId ==
    (store # "doc" /\ lsVal[key].t = "arrtext")
      => \A k \in 1..Len(CachedArr) : CachedArr[k].id # Undefined

\* C12: every save, delete and update writes the cache before it issues its
\* remote call: the step that leaves the remote call pending has already put
\* the saved item at the head of the cached sequence (save), removed the id
\* from it (delete) or merged the patch into it (update).
C12_CacheWrittenBeforeRemote ==
    [][\A f \in NewCalls :
          (f \in pending' /\ f.op \in {"save", "delete", "update"})
          => /\ lsVal'[key].t = "arrtext"
             /\ LET after == lsVal'[key].arr
                    before == lsVal[key].arr
                IN  CASE f.op = "save" ->
                           /\ Len(after) > 0 /\ after[1] = f.item
                           /\ CountId(after, f.item.id) = 1
                      [] f.op = "delete" -> CountId(after, f.id) = 0
                      [] OTHER ->
                           /\ Len(after) = Len(before)
                           /\ \A k \in 1..Len(before) :
                                 after[k] = IF before[k].id = f.id
                                            THEN Overridden(before[k], f.data)
                                            ELSE before[k]]_vars

\* C13: every save, delete, update and doc.set that succeeds (its remote call
\* succeeded or was skipped, or its store has no backend) has dispatched the
\* 'storage' event by the time it resolves, and a call that dispatched it
\* wrote the cache first.
C13_SuccessfulMutationNotifies ==
    /\ (/\ last.op \in Mutations /\ last.status = "resolved"
        /\ last.outcome \in {"ok", "skipped", "none"})
         => last.notified
    /\ \A f \in pending \cup {last} :
          (f.notified /\ Quiet) => lsVal[key].t \in {"arrtext", "objtext"}

\* The item a fetch makes of a backend row: the row's columns (Supabase), or
\* the document's data under its document id unless the data carries an id
\* (Firestore).
FetchedItem(r) ==
    IF backend = "firestore"
    THEN [id |-> IF r.data.id = Undefined THEN r.doc ELSE r.data.id, v |-> r.data.v]
    ELSE r.data
\* The ids a fetch of the table would return.
FetchedIds(tbl) == {FetchedItem(tbl[k]).id : k \in 1..Len(tbl)}

\* C14: a getAll whose remote fetch succeeds returns the sequence of the
\* backend's rows, overwrites the cache entry with exactly that sequence and
\* sets its timestamp to now, so an item only the cache held is dropped; and
\* nothing re-sends such an item later: the backend changes only when the
\* remote call of a save, delete, update or doc.set succeeds, and an id
\* enters it only as the id of the item of that save or of the patch of that
\* update.
C14_FetchOverwritesCache ==
    [][/\ (last' # last /\ last'.op = "getAll" /\ last'.outcome = "ok")
            => /\ last'.status = "resolved"
               /\ last'.ret.k = "arr"
               /\ Len(last'.ret.arr) = Len(remote)
               /\ \A k \in 1..Len(remote) : last'.ret.arr[k] = FetchedItem(remote[k])
               /\ lsVal'[key] = [t |-> "arrtext", arr |-> last'.ret.arr, obj |-> NoFields]
               /\ lsTs'[key] = now
               /\ remote' = remote
       /\ remote' # remote
            => /\ last' # last /\ last'.op \in Mutations /\ last'.outcome = "ok"
               /\ store # "doc" =>
                    \A id \in FetchedIds(remote') \ FetchedIds(remote) :
                       \/ last'.op = "save" /\ last'.item.id = id
                       \/ last'.op = "update" /\ last'.data.id = id]_vars

\* C14 witness: a save whose remote call failed left an item in the cache
\* alone, and a forced getAll that fetched the empty table dropped it.
C14_Witness ==
    /\ last.op = "getAll" /\ last.outcome = "ok" /\ Quiet
    /\ last.prior.t = "arrtext" /\ Len(last.prior.arr) = 1
    /\ remote = <<>>
    /\ lsVal[key] = JSONstringify(JsArr(<<>>))
    /\ lsTs[key] = now
    /\ last.ret = JsArr(<<>>)

\* A getAll whose remote fetch failed settled last.
FetchFailed(f) == f.op = "getAll" /\ f.outcome \in {"error", "quota"}
\* The cache entry of the key is a sequence, or there is none.
SequenceOrNone == lsVal[key].t \in {"none", "arrtext"}

\* C15, as stated: a getAll whose remote fetch fails returns the cached
\* sequence, however old (the empty sequence without an entry), leaves the
\* entry and its timestamp alone, and the next getAll without force issues a
\* remote fetch again.
C15_FailedFetchRefetches ==
    [][/\ (last' # last /\ FetchFailed(last') /\ SequenceOrNone)
            => /\ last'.status = "resolved"
               /\ last'.ret = JsArr(IF lsVal[key].t = "none" THEN <<>> ELSE CachedArr)
               /\ lsVal' = lsVal /\ lsTs' = lsTs
       /\ \A f \in NewCalls :
             (/\ FetchFailed(last) /\ SequenceOrNone /\ f.n = last.n + 1
              /\ f.op = "getAll" /\ ~f.force)
             => f.remote # "none"]_vars

\* C15, amended: a getAll whose remote fetch fails returns the cached
\* sequence, however old (the empty sequence without an entry), and leaves the
\* entry and its timestamp alone; when the failed getAll was itself without
\* force, the next getAll without force and with the same ttlMs issues a
\* remote fetch again, and after a forced one the entry is as fresh as it was.
C15_FailedFetchKeepsCache ==
    [][/\ (last' # last /\ FetchFailed(last') /\ SequenceOrNone)
            => /\ last'.status = "resolved"
               /\ last'.ret = JsArr(IF lsVal[key].t = "none" THEN <<>> ELSE CachedArr)
               /\ lsVal' = lsVal /\ lsTs' = lsTs
       /\ \A f \in NewCalls :
             (/\ FetchFailed(last) /\ SequenceOrNone /\ f.n = last.n + 1
              /\ f.op = "getAll" /\ ~f.force
              /\ ~last.force /\ TtlOf(f) = TtlOf(last))
             => f.remote # "none"]_vars

\* C15 witness: a getAll without force found a stale entry, its fetch failed
\* and it returned the stale sequence; the next getAll without force is
\* fetching again.
C15_Witness ==
    /\ FetchFailed(last) /\ ~last.force /\ last.status = "resolved"
    /\ lsTs[key] # 0 /\ lsVal[key].t = "arrtext" /\ Len(CachedArr) = 2
    /\ last.ret = JsArr(CachedArr)
    /\ \E f \in pending :
          /\ f.op = "getAll" /\ ~f.force /\ f.n = last.n + 1
          /\ f.remote # "none"

\* The calls that act in this step: the one made, or the one that settles.
Acting == (pending' \cup {last'}) \ (pending \cup {last})

\* C16: no step removes the entry of a key or its timestamp; a key without an
\* entry gets one only from a save, delete, update or doc.set or from a read
\* that succeeded, so a getAll whose fetch fails on a key without an entry
\* leaves it without one; and a getAll without force that finds a stale entry
\* goes to the backend and leaves that entry in place.
C16_EntriesNeverRemoved ==
    [][/\ \A k \in CacheKeys :
             /\ lsVal[k].t # "none" => lsVal'[k].t # "none"
             /\ lsTs[k] # 0 => lsTs'[k] # 0
             /\ (lsVal[k].t = "none" /\ lsVal'[k].t # "none")
                   => /\ k = key
                      /\ \E f \in Acting :
                            \/ f.op \in Mutations
                            \/ /\ f.op \in {"getAll", "docGet"}
                               /\ f.status = "resolved"
                               /\ f.outcome \in {"ok", "none"}
       /\ (last' # last /\ FetchFailed(last') /\ lsVal[key].t = "none")
             => lsVal'[key].t = "none" /\ lsTs'[key] = lsTs[key]
       /\ \A f \in NewCalls :
             (/\ f.op = "getAll" /\ ~f.force /\ backend # "none"
              /\ lsVal[key].t # "none" /\ lsTs[key] # 0
              /\ now - lsTs[key] >= TtlOf(f))
             => /\ f \in pending' /\ f.remote # "none"
                /\ lsVal' = lsVal /\ lsTs' = lsTs]_vars

\* C16 witness: a getAll without force went past a stale entry, its fetch
\* failed, and the stale entry and its timestamp are still there.
C16_Witness ==
    /\ FetchFailed(last) /\ ~last.force /\ ~last.hasTtl /\ Quiet
    /\ lsVal[key] = EarlierVisit.text
    /\ lsTs[key] = EarlierVisit.ts
    /\ now - lsTs[key] >= DEFAULT_CACHE_TTL_MS

\* What a save or a delete alone writes over the cached sequence p.
WrittenAlone(f, p) ==
    IF f.op = "save"
    THEN <<f.item>> \o SelectSeq(p, LAMBDA i : i.id # f.item.id)
    ELSE SelectSeq(p, LAMBDA i : i.id # f.id)

\* C17, as stated: when two calls that save or delete on the same key are in
\* flight together, the cache holds what one of them alone would have written
\* over the sequence that was cached before both: the other one's write is
\* lost, never merged.
C17_ConcurrentWritesNeverMerge ==
    \A f1, f2 \in pending :
        (/\ backend = "supabase" /\ store # "doc" /\ calls = 2
         /\ f1.n = 1 /\ f2.n = 2
         /\ f1.op \in {"save", "delete"} /\ f2.op \in {"save", "delete"}
         /\ f1.op = "save" => f1.item.id # Undefined
         /\ f2.op = "save" => f2.item.id # Undefined)
        => \/ CachedArr = WrittenAlone(f1, f1.prior.arr)
           \/ CachedArr = WrittenAlone(f2, f1.prior.arr)

\* C17, amended: with overlapping calls, every cache write replaces the whole
\* entry, so the cache holds what the last writer wrote. A getAll writes the
\* fetched rows whatever the cache held, so an earlier write of an overlapping
\* call can be lost entirely; a save, delete or update writes its change
\* applied to the sequence cached at the moment of its write, so it keeps what
\* an overlapping call wrote before it: the two are merged.
C17_LastWriterWins ==
    [][(store # "doc" /\ lsVal'[key] # lsVal[key])
       => /\ lsVal'[key].t = "arrtext"
          /\ \E f \in Acting :
                LET before == lsVal[key].arr
                    after == lsVal'[key].arr
                IN  CASE f.op = "getAll" /\ backend # "none" ->
                           /\ f.outcome = "ok"
                           /\ Len(after) = Len(remote)
                           /\ \A k \in 1..Len(remote) : after[k] = FetchedItem(remote[k])
                      [] f.op = "getAll" -> after = before
                      [] f.op = "save" ->
                           after = <<f.item>> \o SelectSeq(before,
                                                           LAMBDA i : i.id # f.item.id)
                      [] f.op = "delete" ->
                           after = SelectSeq(before, LAMBDA i : i.id # f.id)
                      [] f.op = "update" ->
                           /\ Len(after) = Len(before)
                           /\ \A k \in 1..Len(before) :
                                 after[k] = IF before[k].id = f.id
                                            THEN Overridden(before[k], f.data)
                                            ELSE before[k]
                      [] OTHER -> FALSE]_vars

\* C17 witness: a save wrote the cache while a forced getAll was fetching, the
\* fetch then returned rows without the saved item, and the cache lost it
\* while the save's remote call is still pending.
C17_Witness ==
    /\ overlap /\ backend = "supabase"
    /\ last.op = "getAll" /\ last.force /\ last.outcome = "ok" /\ last.n = 1
    /\ \E f \in pending :
          /\ f.op = "save" /\ f.n = 2
          /\ CountItem(CachedArr, f.item) = 0
          /\ CachedArr = last.ret.arr

\* The save that writes the cache in this step: at its call where the cache is
\* written before the remote call, when it settles in the Firestore variant.
SaveWrites(f) ==
    /\ f \in Acting /\ f.op = "save" /\ f.status # "rejected"
    /\ IF backend = "firestore" THEN f.status = "resolved" ELSE f \in NewCalls

\* C18: the cache write of save(item) leaves the item followed by every item
\* cached before it whose id is not item.id, in their order; and a save of the
\* item the previous call saved leaves the cached sequence as it is.
C18_SavePrependsOrReplaces ==
    [][\A f \in Acting :
          SaveWrites(f)
          => /\ lsVal'[key].t = "arrtext"
             /\ lsVal'[key].arr =
                   <<f.item>> \o SelectSeq(lsVal[key].arr, LAMBDA i : i.id # f.item.id)
             /\ (/\ last.op = "save" /\ last.status = "resolved"
                 /\ last.n + 1 = f.n /\ last.item = f.item)
                  => lsVal'[key] = lsVal[key]]_vars

\* C18 witness: the same item was saved twice in a row over a sequence that
\* held its id and another one; it replaced the old item at the head and the
\* second save changed nothing.
C18_Witness ==
    /\ last.op = "save" /\ last.status = "resolved" /\ Quiet /\ last.n = 2
    /\ last.item = [id |-> "a", v |-> "y"]
    /\ last.prior.arr = <<[id |-> "a", v |-> "y"], [id |-> "b", v |-> "x"]>>
    /\ CachedArr = <<[id |-> "a", v |-> "y"], [id |-> "b", v |-> "x"]>>

\* C19: in a remote-backed store a getAll without force issues a remote fetch
\* whenever the key has no entry, no timestamp (or timestamp 0), or
\* now - writeTimestamp >= ttlMs (30 minutes unless the caller gives ttlMs,
\* which may be 0): an entry written exactly ttlMs ago is stale; and a getAll
\* without force that settles without a remote call found a fresh entry.
C19_StaleEntryFetches ==
    [][\A f \in NewCalls :
          (f.op = "getAll" /\ ~f.force /\ backend # "none")
          => LET ttlMs == IF f.hasTtl THEN f.ttlMs ELSE 1800000
                 stale == \/ lsVal[key].t = "none"
                          \/ lsTs[key] = 0
                          \/ now - lsTs[key] >= ttlMs
             IN  /\ stale => (f \in pending' /\ f.remote \in {"select", "getDocs"})
                 /\ f = last' => ~stale]_vars

\* C19 witness: a getAll without force is fetching over an entry that was
\* written exactly 30 minutes ago.
C19_Witness ==
    /\ lsVal[key].t = "arrtext" /\ lsTs[key] # 0
    /\ now - lsTs[key] = DEFAULT_CACHE_TTL_MS
    /\ \E f \in pending :
          /\ f.op = "getAll" /\ ~f.force /\ ~f.hasTtl
          /\ f.remote \in {"select", "getDocs"}

\* C20: supabaseLimitReached starts false; it becomes true only when the
\* remote call of a save, delete, update or doc.set fails with an error whose
\* message contains 'quota' or 'limit', and then it does; any other remote
\* error and every failure of getAll or doc.get leave it as it is; it becomes
\* false again only by resetSupabaseLimitStatus, a step that changes nothing
\* else; and while it is true no save, delete, update or doc.set issues a
\* remote call.
C20_DegradedFlagLifecycle ==
    /\ ~supabaseLimitReached
    /\ [][/\ (~supabaseLimitReached /\ supabaseLimitReached')
               => /\ variant = "supabase"
                  /\ last' # last /\ last'.op \in Mutations
                  /\ last'.remote # "none" /\ last'.outcome = "quota"
          /\ (last' # last /\ last'.outcome \in {"error", "quota"})
               => supabaseLimitReached' =
                     (\/ supabaseLimitReached
                      \/ /\ variant = "supabase" /\ last'.op \in Mutations
                         /\ last'.outcome = "quota")
          /\ (supabaseLimitReached /\ ~supabaseLimitReached')
               => UNCHANGED <<config, lsVal, lsTs, remote, now, pending, calls,
                              genCount, last, deleted, gone>>
          /\ \A f \in NewCalls :
                (supabaseLimitReached /\ f.op \in Mutations)
                => /\ f.remote = "none" /\ f \notin pending'
                   /\ remote' = remote]_vars

\* C20 witness: a delete whose remote call failed on a quota error latched the
\* flag, and resetSupabaseLimitStatus has cleared it since.
C20_Witness ==
    /\ variant = "supabase" /\ ~supabaseLimitReached
    /\ last.op = "delete" /\ last.outcome = "quota" /\ Quiet

\* The save, delete or update that writes the cache in this step: at its call
\* where the cache is written before the remote call, when it settles in the
\* Firestore variant.
MutationWrites(f) ==
    /\ f \in Acting /\ f.op \in {"save", "delete", "update"} /\ f.status # "rejected"
    /\ IF backend = "firestore" THEN f.status = "resolved" ELSE f \in NewCalls

\* C21: the cache write of update(id, patch) leaves the cached sequence with
\* its length and order, and every item whose id is not id as it was; when no
\* cached item has id, the sequence is unchanged, its timestamp is set to now,
\* and MediaDB.update returns undefined.
C21_UpdateInsertsNothing ==
    [][\A f \in Acting :
          (MutationWrites(f) /\ f.op = "update")
          => LET before == lsVal[key].arr
                 after == lsVal'[key].arr
             IN  /\ lsVal'[key].t = "arrtext"
                 /\ Len(after) = Len(before)
                 /\ \A k \in 1..Len(before) :
                       before[k].id # f.id => after[k] = before[k]
                 /\ CountId(before, f.id) = 0
                      => /\ after = before
                         /\ lsTs'[key] = now
                         /\ store = "media" => f.ret = JsUndefined]_vars

\* C21 witness: MediaDB.update on an id that a delete had removed returned
\* undefined and left the one remaining item in the cache.
C21_Witness ==
    /\ store = "media" /\ last.op = "update" /\ last.status = "resolved" /\ Quiet
    /\ last.id = "a" /\ last.ret = JsUndefined
    /\ last.prior.arr = <<[id |-> "b", v |-> "x"]>>
    /\ CachedArr = <<[id |-> "b", v |-> "x"]>>

\* C22: the cache write of delete(id) leaves the items whose id is not id, all
\* of them and in their order, whether the remote delete succeeded, failed or
\* was skipped; so a delete of an id no cached item has leaves the sequence as
\* it is, and so does a delete of the id the previous call deleted.
C22_DeleteRemovesExactlyId ==
    [][\A f \in Acting :
          (MutationWrites(f) /\ f.op = "delete")
          => LET before == lsVal[key].arr
                 after == lsVal'[key].arr
             IN  /\ lsVal'[key].t = "arrtext"
                 /\ after = SelectSeq(before, LAMBDA i : i.id # f.id)
                 /\ CountId(before, f.id) = 0 => after = before
                 /\ (/\ last.op = "delete" /\ last.status = "resolved"
                     /\ last.n + 1 = f.n /\ last.id = f.id)
                      => lsVal'[key] = lsVal[key]]_vars

\* C22 witness: an update had given both cached items the id 'b', and a delete
\* of 'b' whose remote call failed removed both.
C22_Witness ==
    /\ last.op = "delete" /\ last.status = "resolved" /\ Quiet
    /\ last.id = "b" /\ last.outcome = "error"
    /\ Len(last.prior.arr) = 2 /\ CountId(last.prior.arr, "b") = 2
    /\ lsVal[key] = JSONstringify(JsArr(<<>>))

\* C23: the cache write of every save, delete and update sets the timestamp of
\* the key to now; so a getAll without force that follows a resolved mutation
\* within ttlMs of that write resolves at once with exactly the cached
\* sequence the mutation left and issues no remote call, whatever the entry
\* was before the mutation.
C23_MutationRefreshesEntry ==
    [][/\ \A f \in Acting :
             MutationWrites(f) => lsTs'[key] = now /\ lsVal'[key].t = "arrtext"
       /\ \A f \in NewCalls :
             (/\ f.op = "getAll" /\ ~f.force
              /\ last.op \in {"save", "delete", "update"} /\ last.status = "resolved"
              /\ last.n + 1 = f.n
              /\ now - lsTs[key] < (IF f.hasTtl THEN f.ttlMs ELSE 1800000))
             => /\ f = last' /\ f.status = "resolved"
                /\ f.ret = JsArr(CachedArr)
                /\ f.remote = "none"
                /\ pending' = pending /\ remote' = remote]_vars

\* C23 witness: a save on a key that had no entry, its remote call failed, and
\* the getAll that followed returned the saved item alone from the cache
\* although the backend holds two rows.
C23_Witness ==
    /\ backend # "none" /\ Len(remote) = 2
    /\ last.op = "getAll" /\ ~last.force /\ last.status = "resolved" /\ last.n = 2
    /\ last.remote = "none"
    /\ last.ret = JsArr(<<[id |-> "a", v |-> "y"]>>)
    /\ CachedArr = <<[id |-> "a", v |-> "y"]>>

\* C24: a save reads the cached sequence and writes it back in one step, so of
\* two saves of different ids made one after the other without awaiting, with
\* no other call made, both items are in the cache, once each, when the second
\* of them to settle has resolved, in whatever order their remote calls
\* return and whether they succeed or fail.
C24_OverlappingSavesBothKept ==
    [][\A f \in Acting :
          (/\ store # "doc" /\ calls' = 2 /\ pending' = {}
           /\ f = last' /\ f.op = "save" /\ f.status = "resolved"
           /\ last.op = "save" /\ last.status = "resolved" /\ last.n # f.n
           /\ last.item.id # f.item.id)
          => /\ lsVal'[key].t = "arrtext"
             /\ CountItem(lsVal'[key].arr, f.item) = 1
             /\ CountItem(lsVal'[key].arr, last.item) = 1]_vars

\* C24 witness: two Firestore saves on an empty cache overlapped, the second
\* one's remote call failed first and the first one's succeeded after it, and
\* the cache holds both items.
C24_Witness ==
    /\ overlap /\ backend = "firestore" /\ pending = {} /\ calls = 2
    /\ last.op = "save" /\ last.n = 1 /\ last.outcome = "ok"
    /\ last.item = [id |-> "g1", v |-> "x"]
    /\ CachedArr = <<[id |-> "g1", v |-> "x"], [id |-> "a", v |-> "y"]>>

\* C25: an operation whose remote call has returned, with success or with an
\* error, has resolved; and an operation whose remote call has not returned
\* has neither resolved nor dispatched its notification.
C25_ReturnedCallResolves ==
    /\ (Settled /\ last.remote # "none") => last.status = "resolved"
    /\ \A f \in pending : f.status = "pending" /\ ~f.notified

\* A getAll that this step answers from localStorage alone, without a remote
\* call.
ServedLocally(f) ==
    /\ f \in NewCalls /\ f.op = "getAll" /\ f = last' /\ f.remote = "none"

\* C26 (as stated): no step changes the entry or the timestamp of a key other
\* than the store's own, and a getAll answered from the cache changes no entry
\* and no timestamp at all, so that no read extends an entry's freshness.
C26_ReadsNeverRestamp ==
    [][/\ \A k \in CacheKeys \ {key} : lsVal'[k] = lsVal[k] /\ lsTs'[k] = lsTs[k]
       /\ \A f \in Acting : ServedLocally(f) => lsVal' = lsVal /\ lsTs' = lsTs]_vars

\* C26: no step changes the entry or the timestamp of a key other than the
\* store's own; a getAll served from a fresh entry changes no entry and no
\* timestamp; and a getAll answered without a remote call changes its own
\* key only in DataStore.collection of db_new.ts, when the entry is missing,
\* stale or the read is forced, and then it stores what it returns.
C26_OnlyOwnKeyChanges ==
    [][/\ \A k \in CacheKeys \ {key} : lsVal'[k] = lsVal[k] /\ lsTs'[k] = lsTs[k]
       /\ \A f \in Acting :
             ServedLocally(f)
               => \/ lsVal' = lsVal /\ lsTs' = lsTs
                  \/ /\ variant = "local" /\ store = "collection"
                     /\ readCache(key, TtlOf(f), f.force) = JsNull
                     /\ f.status = "resolved"
                     /\ lsVal'[key] = JSONstringify(f.ret)
                     /\ lsTs'[key] = now]_vars
\* A getAll with ttlMs of two ticks is served, one tick after the entry was
\* written, from the entry of a remote-backed store, whose timestamp is still
\* the one it was written with.
C26_Witness ==
    /\ backend # "none" /\ last.op = "getAll" /\ last.status = "resolved"
    /\ last.remote = "none" /\ last.ret.k = "arr" /\ last.ret.arr # <<>>
    /\ now = StartNow + TickMs /\ lsTs[key] = StartNow
    /\ calls = 1

\* C27: a doc.get whose remote read fails (or that has no backend) right after
\* a doc.set(data) resolved, whether the remote write succeeded or failed,
\* returns an object that carries every field of data; with no cached entry
\* it returns the empty object; and no doc.get returns undefined.
C27_SettingsRoundTrip ==
    [][(last' # last /\ last'.op = "docGet")
       => /\ (/\ last.op = "docSet" /\ last.status = "resolved"
              /\ last'.n = last.n + 1 /\ last'.outcome # "ok")
               => /\ last'.status = "resolved" /\ last'.ret.k = "obj"
                  /\ \A fld \in Fields :
                        last.data[fld] # Undefined
                          => last'.ret.obj[fld] = last.data[fld]
          /\ (lsVal[key].t = "none" /\ last'.outcome # "ok")
               => last'.status = "resolved" /\ last'.ret = JsObj(NoFields)
          /\ last'.status = "resolved" => last'.ret.k # "undefined"]_vars

====
